---- MODULE Spec2Model ----
(***************************************************************************)
(* STM32H7 flash driver of the Black Magic Debug project                   *)
(* (src/src/target/stm32h7.c) as a state machine.                          *)
(*                                                                         *)
(* The driver is one sequential thread: `stack` is its call stack, one     *)
(* frame per active C function with that function's locals and the label   *)
(* it is at.  Every action is one step of one function and performs at     *)
(* most one register access.  The flash controllers and the debug          *)
(* transport are the environment: the value a status read returns is       *)
(* drawn from SRValues, the lock bit and the key sequencer of each bank    *)
(* are kept in hw_lock / hw_key, and a transport fault may be raised at    *)
(* any point of an operation.                                              *)
(*                                                                         *)
(* `trace` is the history of the operation in progress: calls, returns,    *)
(* register writes and reads of the control register.  Reads of the        *)
(* status register are polled without bound, so they are not in the        *)
(* history: `sr_read` holds the most recent one.                           *)
(***************************************************************************)
EXTENDS Integers, Sequences, FiniteSets, TLC

VARIABLES stack, ret, op, trace, sr_read, hw_lock, hw_key, commErr, timeout, flash,
          attached, target_storage, dbgmcu_cr

\* the session: whether the core is attached, the driver's private
\* storage (struct stm32h7_priv_s), and the device's DBGMCU_CR register
session == <<attached, target_storage, dbgmcu_cr>>

vars == <<stack, ret, op, trace, sr_read, hw_lock, hw_key, commErr, timeout, flash,
          session>>

-----------------------------------------------------------------------------
(* 32-bit words.  C's <<, & and | on uint32_t.                             *)

RECURSIVE Shl(_, _)
Shl(x, n) == IF n = 0 THEN x ELSE Shl(2 * x, n - 1)

RECURSIVE And(_, _)
And(x, y) ==
    IF x = 0 \/ y = 0 THEN 0
    ELSE (x % 2) * (y % 2) + 2 * And(x \div 2, y \div 2)

Or(x, y) == x + y - And(x, y)

-----------------------------------------------------------------------------
(* Register map, stm32h7.c:61-146                                          *)

FLASH_ACR  == 0
FLASH_KEYR == 4
FLASH_CR   == 12
FLASH_SR   == 16
FLASH_CCR  == 20
FLASH_CRCCR   == 80           \* 0x50
FLASH_CRCDATA == 92           \* 0x5C

FPEC1_BASE == 1375739904      \* 0x52002000
FPEC2_BASE == 1375740160      \* 0x52002100

FLASH_SR_BSY      == Shl(1, 0)
FLASH_SR_WBNE     == Shl(1, 1)
FLASH_SR_QW       == Shl(1, 2)
FLASH_SR_CRC_BUSY == Shl(1, 3)
FLASH_SR_EOP      == Shl(1, 16)
FLASH_SR_WRPERR   == Shl(1, 17)
FLASH_SR_PGSERR   == Shl(1, 18)
FLASH_SR_STRBERR  == Shl(1, 19)
FLASH_SR_INCERR   == Shl(1, 21)
FLASH_SR_OPERR    == Shl(1, 22)
FLASH_SR_RDPERR   == Shl(1, 23)
FLASH_SR_RDSERR   == Shl(1, 24)
FLASH_SR_SNECCERR == Shl(1, 25)
FLASH_SR_DBERRERR == Shl(1, 26)

FLASH_SR_ERROR_READ ==
    Or(Or(FLASH_SR_RDPERR, FLASH_SR_RDSERR),
       Or(FLASH_SR_SNECCERR, FLASH_SR_DBERRERR))

FLASH_SR_ERROR_MASK ==
    Or(Or(Or(FLASH_SR_WRPERR, FLASH_SR_PGSERR), FLASH_SR_STRBERR),
       Or(Or(FLASH_SR_INCERR, FLASH_SR_OPERR), FLASH_SR_ERROR_READ))

FLASH_CR_LOCK    == Shl(1, 0)
FLASH_CR_PG      == Shl(1, 1)
FLASH_CR_SER     == Shl(1, 2)
FLASH_CR_BER     == Shl(1, 3)
FLASH_CR_PSIZE16 == Shl(1, 4)
FLASH_CR_PSIZE64 == Shl(3, 4)
FLASH_CR_START   == Shl(1, 7)
FLASH_CR_SNB_1   == Shl(1, 8)
FLASH_CR_CRC_EN  == Shl(1, 15)

FLASH_CRCCR_ALL_BANK    == Shl(1, 7)
FLASH_CRCCR_START_CRC   == Shl(1, 16)
FLASH_CRCCR_CLEAN_CRC   == Shl(1, 17)
FLASH_CRCCR_CRC_BURST_3 == Shl(3, 20)

FLASH_OPTSR          == 32          \* 0x20
FLASH_OPTSR_IWDG1_SW == Shl(1, 4)

DBGMCU_IDCODE == 1543507968         \* 0x5c001000
DBGMCU_CR     == DBGMCU_IDCODE + 4
DBGSLEEP_D1   == Shl(1, 0)
D1DBGCKEN     == Shl(1, 21)
D3DBGCKEN     == Shl(1, 22)

\* enum ID_STM32H7
ID_STM32H74x == 17664               \* 0x4500
ID_STM32H7Bx == 18432               \* 0x4800
ID_STM32H72x == 18480               \* 0x4830

KEY1 == 1164378403            \* 0x45670123
\* 0xCDEF89AB.  TLC's integers are 32-bit signed, so the word is held as
\* its two's-complement bit pattern; it is only ever compared.
KEY2 == -839005205

BANK1_START         == 134217728     \* 0x08000000
BANK2_START         == 135266304     \* 0x08100000
NUM_SECTOR_PER_BANK == 8
FLASH_SECTOR_SIZE   == 131072        \* 0x20000
BANK_LENGTH         == 1048576       \* 0x100000, stm32h7_attach

\* enum align, as used by psize * FLASH_CR_PSIZE16
ALIGN_BYTE     == 0
ALIGN_HALFWORD == 1
ALIGN_WORD     == 2
ALIGN_DWORD    == 3

Bases == {FPEC1_BASE, FPEC2_BASE}

-----------------------------------------------------------------------------
(* Environment: what the hardware and the transport may answer.            *)

\* Status words a read of FLASH_SR may return: idle, each busy indicator,
\* end-of-operation, a write-protection error alone and together with
\* other bits, a read error.
SRValues ==
    { 0,
      FLASH_SR_BSY,
      FLASH_SR_WBNE,
      FLASH_SR_QW,
      FLASH_SR_CRC_BUSY,
      FLASH_SR_WRPERR,
      Or(Or(FLASH_SR_WRPERR, FLASH_SR_EOP), FLASH_SR_QW),
      FLASH_SR_RDSERR,
      Or(FLASH_SR_CRC_BUSY, FLASH_SR_RDSERR) }

\* target_mem_read32(t, regbase + FLASH_SR).  While a transport fault is
\* pending the value is whatever the transport hands back.
target_mem_read32_SR(b) == SRValues

\* target_mem_read32(t, regbase + FLASH_CR): the lock bit of the bank, or
\* anything while a transport fault is pending.
target_mem_read32_CR(b) ==
    IF commErr THEN {0, FLASH_CR_LOCK}
    ELSE {IF hw_lock[b] THEN FLASH_CR_LOCK ELSE 0}

\* The digest each controller's CRC unit holds in its FLASH_CRCDATA.
hw_crcdata(b) == IF b = FPEC1_BASE THEN 45489 ELSE 49374

\* target_mem_read32(t, regbase + FLASH_CRCDATA)
target_mem_read32_CRCDATA(b) ==
    IF commErr THEN {0, hw_crcdata(b)} ELSE {hw_crcdata(b)}

\* target_mem_read32(t, DBGMCU_CR)
target_mem_read32_DBGMCU_CR ==
    IF commErr THEN {0, dbgmcu_cr} ELSE {dbgmcu_cr}

\* target_mem_read32(t, FPEC1_BASE + FLASH_OPTSR): the watchdog is under
\* software control or it is not
target_mem_read32_OPTSR == {0, FLASH_OPTSR_IWDG1_SW}

\* A 32-bit write reaches the device only while no transport fault is
\* pending (the fault is sticky until target_check_error collects it).
Delivered == ~commErr

\* Effect of writing val to FLASH_CR of bank b on that bank's lock bit.
\* The register is write-protected while locked; LOCK can be set by
\* software but is cleared only by the key sequence.
LockAfterCRWrite(b, val) ==
    IF Delivered /\ ~hw_lock[b] /\ And(val, FLASH_CR_LOCK) # 0
    THEN [hw_lock EXCEPT ![b] = TRUE]
    ELSE hw_lock

-----------------------------------------------------------------------------
(* The access history.                                                     *)

Ev(by, kind, addr, val, res) ==
    [by |-> by, kind |-> kind, addr |-> addr, val |-> val, res |-> res]

CallEv(fn, a)   == Ev(fn, "call", a, 0, FALSE)
ReqEv(fn, a, n) == Ev(fn, "call", a, n, FALSE)
RetEv(fn, a, r) == Ev(fn, "ret", a, 0, r)
RdEv(fn, a, v)  == Ev(fn, "r", a, v, FALSE)
WrEv(fn, a, v)  == Ev(fn, "w", a, v, FALSE)
BlkEv(fn, a, n) == Ev(fn, "wblock", a, n, FALSE)
\* return of a function with an int result: the value, and whether it is 0
IntRetEv(fn, a, rc) == Ev(fn, "ret", a, rc, rc = 0)
\* tc_printf of two words
OutEv(fn, x, y) == Ev(fn, "out", x, y, FALSE)

\* The most recent read of a status register: who read, which bank, what.
SrRead(fn, b, v) == [by |-> fn, base |-> b, val |-> v]
NoSrRead == SrRead("none", 0, 0)

Top  == Head(stack)
Rest == Tail(stack)
Idle == stack = <<>>
At(fn, pc) == stack # <<>> /\ Top.fn = fn /\ Top.pc = pc

-----------------------------------------------------------------------------
(* stm32h7_flash_busy_wait, stm32h7.c:246-259                              *)

\* mutant: the transport is not asked
stm32h7_flash_busy_wait_error_no_comm(sr, comm) ==
    And(sr, FLASH_SR_ERROR_MASK) # 0

\* line 251: (sr & FLASH_SR_ERROR_MASK) || target_check_error(t)
stm32h7_flash_busy_wait_error(sr, comm) ==
    And(sr, FLASH_SR_ERROR_MASK) # 0 \/ comm

\* mutant: the status word is written back unmasked
stm32h7_flash_busy_wait_clear_unmasked(sr) == sr

\* line 253: the value written to FLASH_CCR
stm32h7_flash_busy_wait_clear(sr) == And(sr, FLASH_SR_ERROR_MASK)

\* mutant: only BSY keeps the loop going
stm32h7_flash_busy_wait_again_bsy_only(sr) == And(sr, FLASH_SR_BSY) # 0

\* line 256: while (sr & (FLASH_SR_BSY | FLASH_SR_QW))
stm32h7_flash_busy_wait_again(sr) ==
    And(sr, Or(FLASH_SR_BSY, FLASH_SR_QW)) # 0

BusyWaitFrame(regbase) ==
    [fn |-> "stm32h7_flash_busy_wait", pc |-> "read", regbase |-> regbase, sr |-> 0]

\* line 250: sr = target_mem_read32(t, regbase + FLASH_SR)
stm32h7_flash_busy_wait_read ==
    /\ At("stm32h7_flash_busy_wait", "read")
    /\ \E v \in target_mem_read32_SR(Top.regbase) :
          /\ stack' = <<[Top EXCEPT !.sr = v, !.pc = "test"]>> \o Rest
          /\ sr_read' = SrRead("stm32h7_flash_busy_wait", Top.regbase, v)
    /\ UNCHANGED <<ret, op, trace, hw_lock, hw_key, commErr, timeout, flash, session>>

\* lines 251-256: the error test, the acknowledge write and the loop test.
\* target_check_error is evaluated only when sr shows no error bit, and it
\* collects (clears) the pending transport fault.
stm32h7_flash_busy_wait_test ==
    /\ At("stm32h7_flash_busy_wait", "test")
    /\ LET fn  == "stm32h7_flash_busy_wait"
           b   == Top.regbase
           sr  == Top.sr
       IN  IF stm32h7_flash_busy_wait_error(sr, commErr)
           THEN /\ commErr' = IF And(sr, FLASH_SR_ERROR_MASK) # 0 THEN commErr ELSE FALSE
                /\ trace' = trace \o
                     <<WrEv(fn, b + FLASH_CCR, stm32h7_flash_busy_wait_clear(sr)),
                       RetEv(fn, b, FALSE)>>
                /\ stack' = Rest
                /\ ret' = FALSE
           ELSE IF stm32h7_flash_busy_wait_again(sr)
           THEN /\ stack' = <<[Top EXCEPT !.pc = "read"]>> \o Rest
                /\ UNCHANGED <<ret, trace, commErr>>
           ELSE /\ trace' = Append(trace, RetEv(fn, b, TRUE))
                /\ stack' = Rest
                /\ ret' = TRUE
                /\ UNCHANGED commErr
    /\ UNCHANGED <<op, hw_lock, hw_key, timeout, flash, session, sr_read>>

-----------------------------------------------------------------------------
(* stm32h7_flash_unlock, stm32h7.c:261-276                                 *)

\* mutant: the bank 2 test is missing
stm32h7_flash_unlock_regbase_bank1(addr) == FPEC1_BASE

\* lines 263-265
stm32h7_flash_unlock_regbase(addr) ==
    IF addr >= BANK2_START THEN FPEC2_BASE ELSE FPEC1_BASE

\* mutant: | instead of &
stm32h7_flash_unlock_locked_or(cr) == Or(cr, FLASH_CR_LOCK) # 0

\* lines 270, 275: the lock test on a value read from FLASH_CR
stm32h7_flash_unlock_locked(cr) == And(cr, FLASH_CR_LOCK) # 0

\* The frames and the history entries of a call stm32h7_flash_unlock(t, addr):
\* the function starts with its call of the busy-wait (line 267).
UnlockFrames(addr) ==
    LET rb == stm32h7_flash_unlock_regbase(addr)
    IN  << BusyWaitFrame(rb),
           [fn |-> "stm32h7_flash_unlock", pc |-> "lock_check", regbase |-> rb] >>

UnlockCall(addr) ==
    LET rb == stm32h7_flash_unlock_regbase(addr)
    IN  << CallEv("stm32h7_flash_unlock", rb), CallEv("stm32h7_flash_busy_wait", rb) >>

\* lines 267-270: give up if the wait failed, else read the lock bit
stm32h7_flash_unlock_lock_check ==
    /\ At("stm32h7_flash_unlock", "lock_check")
    /\ LET fn == "stm32h7_flash_unlock"
           b  == Top.regbase
       IN  IF ~ret
           THEN /\ stack' = Rest
                /\ ret' = FALSE
                /\ trace' = Append(trace, RetEv(fn, b, FALSE))
           ELSE \E cr \in target_mem_read32_CR(b) :
                /\ trace' = Append(trace, RdEv(fn, b + FLASH_CR, cr))
                /\ stack' = <<[Top EXCEPT !.pc =
                        IF stm32h7_flash_unlock_locked(cr) THEN "key1" ELSE "final"]>> \o Rest
                /\ UNCHANGED ret
    /\ UNCHANGED <<op, hw_lock, hw_key, commErr, timeout, flash, session, sr_read>>

\* line 272: target_mem_write32(t, regbase + FLASH_KEYR, KEY1)
stm32h7_flash_unlock_key1 ==
    /\ At("stm32h7_flash_unlock", "key1")
    /\ LET b == Top.regbase
       IN  /\ trace' = Append(trace, WrEv("stm32h7_flash_unlock", b + FLASH_KEYR, KEY1))
           /\ hw_key' = IF Delivered THEN [hw_key EXCEPT ![b] = 1] ELSE hw_key
           /\ stack' = <<[Top EXCEPT !.pc = "key2"]>> \o Rest
    /\ UNCHANGED <<ret, op, hw_lock, commErr, timeout, flash, session, sr_read>>

\* line 273: target_mem_write32(t, regbase + FLASH_KEYR, KEY2).  The
\* controller opens the bank when KEY2 follows KEY1, unless it rejects the
\* sequence.
stm32h7_flash_unlock_key2 ==
    /\ At("stm32h7_flash_unlock", "key2")
    /\ LET b == Top.regbase
       IN  /\ trace' = Append(trace, WrEv("stm32h7_flash_unlock", b + FLASH_KEYR, KEY2))
           /\ IF Delivered
              THEN /\ hw_key' = [hw_key EXCEPT ![b] = 0]
                   /\ \E accept \in BOOLEAN :
                        hw_lock' = IF accept /\ hw_key[b] = 1
                                   THEN [hw_lock EXCEPT ![b] = FALSE]
                                   ELSE hw_lock
              ELSE UNCHANGED <<hw_key, hw_lock>>
           /\ stack' = <<[Top EXCEPT !.pc = "final"]>> \o Rest
    /\ UNCHANGED <<ret, op, commErr, timeout, flash, session, sr_read>>

\* line 275: return !(target_mem_read32(t, regbase + FLASH_CR) & FLASH_CR_LOCK)
stm32h7_flash_unlock_final ==
    /\ At("stm32h7_flash_unlock", "final")
    /\ LET fn == "stm32h7_flash_unlock"
           b  == Top.regbase
       IN  \E cr \in target_mem_read32_CR(b) :
             /\ ret' = ~stm32h7_flash_unlock_locked(cr)
             /\ trace' = trace \o <<RdEv(fn, b + FLASH_CR, cr), RetEv(fn, b, ret')>>
             /\ stack' = Rest
    /\ UNCHANGED <<op, hw_lock, hw_key, commErr, timeout, flash, session, sr_read>>

-----------------------------------------------------------------------------
(* stm32h7_flash_erase, stm32h7.c:278-306                                  *)

\* mutant: the bank base is left in the address
stm32h7_flash_erase_addr_absolute(addr) == addr

\* line 286: addr &= (NUM_SECTOR_PER_BANK * FLASH_SECTOR_SIZE) - 1
stm32h7_flash_erase_addr(addr) ==
    And(addr, NUM_SECTOR_PER_BANK * FLASH_SECTOR_SIZE - 1)

\* line 287
stm32h7_flash_erase_start_sector(addr) ==
    stm32h7_flash_erase_addr(addr) \div FLASH_SECTOR_SIZE

\* mutant: the last byte of the request is taken one past its end
stm32h7_flash_erase_end_sector_past(addr, len) ==
    (stm32h7_flash_erase_addr(addr) + len) \div FLASH_SECTOR_SIZE

\* line 288
stm32h7_flash_erase_end_sector(addr, len) ==
    (stm32h7_flash_erase_addr(addr) + len - 1) \div FLASH_SECTOR_SIZE

\* line 292
stm32h7_flash_erase_ctrl_reg(psize, sector) ==
    Or(Or(psize * FLASH_CR_PSIZE16, FLASH_CR_SER), sector * FLASH_CR_SNB_1)

\* lines 278-283: entry, the call of stm32h7_flash_unlock(t, addr)
stm32h7_flash_erase(i, addr, len) ==
    /\ Idle
    /\ op' = "stm32h7_flash_erase"
    /\ sr_read' = NoSrRead
    /\ trace' = <<ReqEv("stm32h7_flash_erase", addr, len)>> \o UnlockCall(addr)
    /\ stack' = UnlockFrames(addr) \o
         << [fn |-> "stm32h7_flash_erase", pc |-> "acr", regbase |-> flash[i].regbase,
             addr |-> addr, len |-> len, psize |-> flash[i].psize,
             start_sector |-> 0, end_sector |-> 0] >>
    /\ ret' = FALSE
    /\ timeout' = "unset"
    /\ UNCHANGED <<hw_lock, hw_key, commErr, flash, session>>

\* lines 282-290: unlock result, FLASH_ACR = 0, the sector range
stm32h7_flash_erase_acr ==
    /\ At("stm32h7_flash_erase", "acr")
    /\ LET fn == "stm32h7_flash_erase"
       IN  IF ~ret
           THEN /\ stack' = Rest
                /\ ret' = FALSE
                /\ trace' = Append(trace, RetEv(fn, Top.addr, FALSE))
           ELSE /\ trace' = Append(trace, WrEv(fn, Top.regbase + FLASH_ACR, 0))
                /\ stack' = <<[Top EXCEPT
                        !.pc = "loop",
                        !.start_sector = stm32h7_flash_erase_start_sector(Top.addr),
                        !.end_sector = stm32h7_flash_erase_end_sector(Top.addr, Top.len)]>>
                     \o Rest
                /\ UNCHANGED ret
    /\ UNCHANGED <<op, hw_lock, hw_key, commErr, timeout, flash, session, sr_read>>

\* lines 291-293: the loop test and the arming write of one sector
stm32h7_flash_erase_loop ==
    /\ At("stm32h7_flash_erase", "loop")
    /\ LET fn == "stm32h7_flash_erase"
           b  == Top.regbase
           cr == stm32h7_flash_erase_ctrl_reg(Top.psize, Top.start_sector)
       IN  IF Top.start_sector <= Top.end_sector
           THEN /\ trace' = Append(trace, WrEv(fn, b + FLASH_CR, cr))
                /\ hw_lock' = LockAfterCRWrite(b, cr)
                /\ stack' = <<[Top EXCEPT !.pc = "start"]>> \o Rest
                /\ UNCHANGED ret
           ELSE /\ stack' = Rest
                /\ ret' = TRUE
                /\ trace' = Append(trace, RetEv(fn, Top.addr, TRUE))
                /\ UNCHANGED hw_lock
    /\ UNCHANGED <<op, hw_key, commErr, timeout, flash, session, sr_read>>

\* lines 294-300: the same word with FLASH_CR_START, then the busy-wait.
\* (The reads of lines 297-298 are arguments of DEBUG_INFO only.)
stm32h7_flash_erase_start ==
    /\ At("stm32h7_flash_erase", "start")
    /\ LET fn == "stm32h7_flash_erase"
           b  == Top.regbase
           cr == Or(stm32h7_flash_erase_ctrl_reg(Top.psize, Top.start_sector),
                    FLASH_CR_START)
       IN  /\ trace' = trace \o
                <<WrEv(fn, b + FLASH_CR, cr), CallEv("stm32h7_flash_busy_wait", b)>>
           /\ hw_lock' = LockAfterCRWrite(b, cr)
           /\ stack' = <<BusyWaitFrame(b), [Top EXCEPT !.pc = "next"]>> \o Rest
    /\ UNCHANGED <<ret, op, hw_key, commErr, timeout, flash, session, sr_read>>

\* lines 300-303: stop at the first failing sector, else ++start_sector
stm32h7_flash_erase_next ==
    /\ At("stm32h7_flash_erase", "next")
    /\ IF ~ret
       THEN /\ stack' = Rest
            /\ ret' = FALSE
            /\ trace' = Append(trace, RetEv("stm32h7_flash_erase", Top.addr, FALSE))
       ELSE /\ stack' = <<[Top EXCEPT !.pc = "loop",
                                      !.start_sector = Top.start_sector + 1]>> \o Rest
            /\ UNCHANGED <<ret, trace>>
    /\ UNCHANGED <<op, hw_lock, hw_key, commErr, timeout, flash, session, sr_read>>

-----------------------------------------------------------------------------
(* stm32h7_flash_write, stm32h7.c:308-330                                  *)

\* mutant: the first word already has the program-enable bit
stm32h7_flash_write_cr_pg(psize) == Or(psize * FLASH_CR_PSIZE16, FLASH_CR_PG)

\* line 315
stm32h7_flash_write_cr(psize) == psize * FLASH_CR_PSIZE16

\* lines 308-314: entry, the call of stm32h7_flash_unlock(t, dest)
stm32h7_flash_write(i, dest, len) ==
    /\ Idle
    /\ op' = "stm32h7_flash_write"
    /\ sr_read' = NoSrRead
    /\ trace' = <<ReqEv("stm32h7_flash_write", dest, len)>> \o UnlockCall(dest)
    /\ stack' = UnlockFrames(dest) \o
         << [fn |-> "stm32h7_flash_write", pc |-> "cr", regbase |-> flash[i].regbase,
             dest |-> dest, len |-> len, psize |-> flash[i].psize] >>
    /\ ret' = FALSE
    /\ timeout' = "unset"
    /\ UNCHANGED <<hw_lock, hw_key, commErr, flash, session>>

\* lines 313-316: unlock result, then the parallelism alone
stm32h7_flash_write_psize ==
    /\ At("stm32h7_flash_write", "cr")
    /\ LET fn == "stm32h7_flash_write"
           b  == Top.regbase
           cr == stm32h7_flash_write_cr(Top.psize)
       IN  IF ~ret
           THEN /\ stack' = Rest
                /\ ret' = FALSE
                /\ trace' = Append(trace, RetEv(fn, Top.dest, FALSE))
                /\ UNCHANGED hw_lock
           ELSE /\ trace' = Append(trace, WrEv(fn, b + FLASH_CR, cr))
                /\ hw_lock' = LockAfterCRWrite(b, cr)
                /\ stack' = <<[Top EXCEPT !.pc = "pg"]>> \o Rest
                /\ UNCHANGED ret
    /\ UNCHANGED <<op, hw_key, commErr, timeout, flash, session, sr_read>>

\* lines 317-318: the parallelism with FLASH_CR_PG
stm32h7_flash_write_pg ==
    /\ At("stm32h7_flash_write", "pg")
    /\ LET b  == Top.regbase
           cr == Or(stm32h7_flash_write_cr(Top.psize), FLASH_CR_PG)
       IN  /\ trace' = Append(trace, WrEv("stm32h7_flash_write", b + FLASH_CR, cr))
           /\ hw_lock' = LockAfterCRWrite(b, cr)
           /\ stack' = <<[Top EXCEPT !.pc = "data"]>> \o Rest
    /\ UNCHANGED <<ret, op, hw_key, commErr, timeout, flash, session, sr_read>>

\* lines 321-323: the block write, then the busy-wait
stm32h7_flash_write_data ==
    /\ At("stm32h7_flash_write", "data")
    /\ LET b == Top.regbase
       IN  /\ trace' = trace \o
                <<BlkEv("stm32h7_flash_write", Top.dest, Top.len),
                  CallEv("stm32h7_flash_busy_wait", b)>>
           /\ stack' = <<BusyWaitFrame(b), [Top EXCEPT !.pc = "close"]>> \o Rest
    /\ UNCHANGED <<ret, op, hw_lock, hw_key, commErr, timeout, flash, session, sr_read>>

\* lines 323-329: a failed wait returns at once; else FLASH_CR = 0
stm32h7_flash_write_close ==
    /\ At("stm32h7_flash_write", "close")
    /\ LET fn == "stm32h7_flash_write"
           b  == Top.regbase
       IN  IF ~ret
           THEN /\ trace' = Append(trace, RetEv(fn, Top.dest, FALSE))
                /\ ret' = FALSE
                /\ UNCHANGED hw_lock
           ELSE /\ trace' = trace \o <<WrEv(fn, b + FLASH_CR, 0), RetEv(fn, Top.dest, TRUE)>>
                /\ hw_lock' = LockAfterCRWrite(b, 0)
                /\ ret' = TRUE
    /\ stack' = Rest
    /\ UNCHANGED <<op, hw_key, commErr, timeout, flash, session, sr_read>>

-----------------------------------------------------------------------------
(* stm32h7_erase_bank, stm32h7.c:332-344                                   *)

\* line 340
stm32h7_erase_bank_ctrl_reg(psize) ==
    Or(Or(psize * FLASH_CR_PSIZE16, FLASH_CR_BER), FLASH_CR_START)

\* Frames and history entries of a call
\* stm32h7_erase_bank(t, psize, start_addr, reg_base): the function starts
\* with its call of stm32h7_flash_unlock(t, start_addr) (line 335).
EraseBankFrames(psize, start_addr, reg_base) ==
    UnlockFrames(start_addr) \o
      << [fn |-> "stm32h7_erase_bank", pc |-> "cmd", regbase |-> reg_base,
          psize |-> psize] >>

EraseBankCall(start_addr, reg_base) ==
    <<CallEv("stm32h7_erase_bank", reg_base)>> \o UnlockCall(start_addr)

\* lines 335-343
stm32h7_erase_bank ==
    /\ At("stm32h7_erase_bank", "cmd")
    /\ LET fn == "stm32h7_erase_bank"
           b  == Top.regbase
           cr == stm32h7_erase_bank_ctrl_reg(Top.psize)
       IN  IF ~ret
           THEN /\ trace' = Append(trace, RetEv(fn, b, FALSE))
                /\ ret' = FALSE
                /\ UNCHANGED hw_lock
           ELSE /\ trace' = trace \o <<WrEv(fn, b + FLASH_CR, cr), RetEv(fn, b, TRUE)>>
                /\ hw_lock' = LockAfterCRWrite(b, cr)
                /\ ret' = TRUE
    /\ stack' = Rest
    /\ UNCHANGED <<op, hw_key, commErr, timeout, flash, session, sr_read>>

-----------------------------------------------------------------------------
(* stm32h7_wait_erase_bank, stm32h7.c:346-356                              *)

\* mutant: the loop watches BSY instead of QW
stm32h7_wait_erase_bank_again_bsy(sr) == And(sr, FLASH_SR_BSY) # 0

\* line 348: the loop condition
stm32h7_wait_erase_bank_again(sr) == And(sr, FLASH_SR_QW) # 0

\* line 353: target_print_progress(timeout) reports progress to the
\* operator.  It returns nothing, and the loop reads nothing back from the
\* timeout it is handed.
target_print_progress(tmo) == tmo

WaitEraseBankFrame(reg_base) ==
    [fn |-> "stm32h7_wait_erase_bank", pc |-> "read", regbase |-> reg_base, sr |-> 0]

\* line 348: read the status; leave the loop when QW reads clear
stm32h7_wait_erase_bank_read ==
    /\ At("stm32h7_wait_erase_bank", "read")
    /\ LET fn == "stm32h7_wait_erase_bank"
           b  == Top.regbase
       IN  \E v \in target_mem_read32_SR(b) :
             /\ sr_read' = SrRead(fn, b, v)
             /\ IF stm32h7_wait_erase_bank_again(v)
                THEN /\ stack' = <<[Top EXCEPT !.sr = v, !.pc = "body"]>> \o Rest
                     /\ UNCHANGED <<ret, trace>>
                ELSE /\ stack' = Rest
                     /\ ret' = TRUE
                     /\ trace' = Append(trace, RetEv(fn, b, TRUE))
    /\ UNCHANGED <<op, hw_lock, hw_key, commErr, timeout, flash, session>>

\* lines 349-353: the loop body
stm32h7_wait_erase_bank_body ==
    /\ At("stm32h7_wait_erase_bank", "body")
    /\ LET fn == "stm32h7_wait_erase_bank"
           b  == Top.regbase
       IN  IF commErr
           THEN /\ commErr' = FALSE
                /\ stack' = Rest
                /\ ret' = FALSE
                /\ trace' = Append(trace, RetEv(fn, b, FALSE))
                /\ UNCHANGED timeout
           ELSE /\ timeout' = target_print_progress(timeout)
                /\ stack' = <<[Top EXCEPT !.pc = "read"]>> \o Rest
                /\ UNCHANGED <<ret, trace, commErr>>
    /\ UNCHANGED <<op, hw_lock, hw_key, flash, session, sr_read>>

-----------------------------------------------------------------------------
(* stm32h7_check_bank, stm32h7.c:358-364                                   *)

\* line 363
stm32h7_check_bank_result(status) == And(status, FLASH_SR_ERROR_MASK) = 0

CheckBankFrame(reg_base) ==
    [fn |-> "stm32h7_check_bank", pc |-> "read", regbase |-> reg_base]

stm32h7_check_bank ==
    /\ At("stm32h7_check_bank", "read")
    /\ LET fn == "stm32h7_check_bank"
           b  == Top.regbase
       IN  \E status \in target_mem_read32_SR(b) :
             /\ sr_read' = SrRead(fn, b, status)
             /\ ret' = stm32h7_check_bank_result(status)
             /\ trace' = Append(trace, RetEv(fn, b, ret'))
    /\ stack' = Rest
    /\ UNCHANGED <<op, hw_lock, hw_key, commErr, timeout, flash, session>>

-----------------------------------------------------------------------------
(* stm32h7_mass_erase, stm32h7.c:367-388                                   *)

\* lines 369-373: the parallelism of the last descriptor this driver owns
RECURSIVE stm32h7_mass_erase_psize(_, _)
stm32h7_mass_erase_psize(fl, psize) ==
    IF fl = <<>> THEN psize
    ELSE stm32h7_mass_erase_psize(Tail(fl),
            IF Head(fl).write = "stm32h7_flash_write" THEN Head(fl).psize ELSE psize)

\* line 375, left operand: give up when bank 1 did not start
stm32h7_mass_erase_bank1_failed(started) == ~started

\* line 376, right operand of ||, as written (no negation)
stm32h7_mass_erase_bank2_failed(started) == started

\* mutant: the check of bank 2 is dropped from the result
stm32h7_mass_erase_result_bank1_only(ok1, ok2) == ok1

\* line 387
stm32h7_mass_erase_result(ok1, ok2) == ok1 /\ ok2

MassEraseFrame(pc, psize) ==
    [fn |-> "stm32h7_mass_erase", pc |-> pc, psize |-> psize]

\* lines 367-375: entry; stm32h7_erase_bank(t, psize, BANK1_START, FPEC1_BASE)
stm32h7_mass_erase ==
    /\ Idle
    /\ op' = "stm32h7_mass_erase"
    /\ sr_read' = NoSrRead
    /\ timeout' = "unset"
    /\ LET psize == stm32h7_mass_erase_psize(flash, ALIGN_DWORD)
       IN  /\ trace' = <<CallEv("stm32h7_mass_erase", 0)>> \o
                         EraseBankCall(BANK1_START, FPEC1_BASE)
           /\ stack' = EraseBankFrames(psize, BANK1_START, FPEC1_BASE) \o
                         <<MassEraseFrame("bank1", psize)>>
    /\ ret' = FALSE
    /\ UNCHANGED <<hw_lock, hw_key, commErr, flash, session>>

\* lines 375-376: || evaluates the bank 2 call only if bank 1 started
stm32h7_mass_erase_bank1 ==
    /\ At("stm32h7_mass_erase", "bank1")
    /\ IF stm32h7_mass_erase_bank1_failed(ret)
       THEN /\ stack' = Rest
            /\ ret' = FALSE
            /\ trace' = Append(trace, RetEv("stm32h7_mass_erase", 0, FALSE))
       ELSE /\ stack' = EraseBankFrames(Top.psize, BANK2_START, FPEC2_BASE) \o
                          <<[Top EXCEPT !.pc = "bank2"]>> \o Rest
            /\ trace' = trace \o EraseBankCall(BANK2_START, FPEC2_BASE)
            /\ UNCHANGED ret
    /\ UNCHANGED <<op, hw_lock, hw_key, commErr, timeout, flash, session, sr_read>>

\* lines 376-382: the result of the bank 2 call, platform_timeout_set,
\* then the wait on bank 1
stm32h7_mass_erase_bank2 ==
    /\ At("stm32h7_mass_erase", "bank2")
    /\ IF stm32h7_mass_erase_bank2_failed(ret)
       THEN /\ stack' = Rest
            /\ ret' = FALSE
            /\ trace' = Append(trace, RetEv("stm32h7_mass_erase", 0, FALSE))
            /\ UNCHANGED timeout
       ELSE /\ timeout' = "armed"
            /\ stack' = <<WaitEraseBankFrame(FPEC1_BASE), [Top EXCEPT !.pc = "wait1"]>>
                          \o Rest
            /\ trace' = Append(trace, CallEv("stm32h7_wait_erase_bank", FPEC1_BASE))
            /\ UNCHANGED ret
    /\ UNCHANGED <<op, hw_lock, hw_key, commErr, flash, session, sr_read>>

\* lines 382-383
stm32h7_mass_erase_wait1 ==
    /\ At("stm32h7_mass_erase", "wait1")
    /\ IF ~ret
       THEN /\ stack' = Rest
            /\ ret' = FALSE
            /\ trace' = Append(trace, RetEv("stm32h7_mass_erase", 0, FALSE))
       ELSE /\ stack' = <<WaitEraseBankFrame(FPEC2_BASE), [Top EXCEPT !.pc = "wait2"]>>
                          \o Rest
            /\ trace' = Append(trace, CallEv("stm32h7_wait_erase_bank", FPEC2_BASE))
            /\ UNCHANGED ret
    /\ UNCHANGED <<op, hw_lock, hw_key, commErr, timeout, flash, session, sr_read>>

\* lines 383-387
stm32h7_mass_erase_wait2 ==
    /\ At("stm32h7_mass_erase", "wait2")
    /\ IF ~ret
       THEN /\ stack' = Rest
            /\ ret' = FALSE
            /\ trace' = Append(trace, RetEv("stm32h7_mass_erase", 0, FALSE))
       ELSE /\ stack' = <<CheckBankFrame(FPEC1_BASE), [Top EXCEPT !.pc = "check1"]>>
                          \o Rest
            /\ trace' = Append(trace, CallEv("stm32h7_check_bank", FPEC1_BASE))
            /\ UNCHANGED ret
    /\ UNCHANGED <<op, hw_lock, hw_key, commErr, timeout, flash, session, sr_read>>

\* line 387: && evaluates the bank 2 check only if bank 1 is clean
stm32h7_mass_erase_check1 ==
    /\ At("stm32h7_mass_erase", "check1")
    /\ IF ~ret
       THEN /\ stack' = Rest
            /\ ret' = stm32h7_mass_erase_result(FALSE, FALSE)
            /\ trace' = Append(trace, RetEv("stm32h7_mass_erase", 0, ret'))
       ELSE /\ stack' = <<CheckBankFrame(FPEC2_BASE), [Top EXCEPT !.pc = "check2"]>>
                          \o Rest
            /\ trace' = Append(trace, CallEv("stm32h7_check_bank", FPEC2_BASE))
            /\ UNCHANGED ret
    /\ UNCHANGED <<op, hw_lock, hw_key, commErr, timeout, flash, session, sr_read>>

\* line 387: the result
stm32h7_mass_erase_check2 ==
    /\ At("stm32h7_mass_erase", "check2")
    /\ stack' = Rest
    /\ ret' = stm32h7_mass_erase_result(TRUE, ret)
    /\ trace' = Append(trace, RetEv("stm32h7_mass_erase", 0, ret'))
    /\ UNCHANGED <<op, hw_lock, hw_key, commErr, timeout, flash, session, sr_read>>

-----------------------------------------------------------------------------
(* stm32h7_crc_bank, stm32h7.c:415-444                                     *)

\* lines 417-419
stm32h7_crc_bank_regbase(bank) ==
    IF bank >= BANK2_START THEN FPEC2_BASE ELSE FPEC1_BASE

\* lines 425-426
stm32h7_crc_bank_crccr ==
    Or(Or(FLASH_CRCCR_CRC_BURST_3, FLASH_CRCCR_CLEAN_CRC), FLASH_CRCCR_ALL_BANK)

\* lines 430-431: the loop condition
stm32h7_crc_bank_again(sr) == And(sr, FLASH_SR_CRC_BUSY) # 0

\* line 437
stm32h7_crc_bank_read_error(sr) == And(sr, FLASH_SR_ERROR_READ) # 0

\* Frames and history entries of a call stm32h7_crc_bank(t, bank): the
\* function starts with its call of stm32h7_flash_unlock(t, bank) (line 421).
CrcBankFrames(bank) ==
    UnlockFrames(bank) \o
      << [fn |-> "stm32h7_crc_bank", pc |-> "cr",
          regbase |-> stm32h7_crc_bank_regbase(bank), sr |-> 0] >>

\* return rc; of stm32h7_crc_bank: the int goes to the caller, which is
\* the frame below
CrcBankReturn(rc) == <<[Head(Rest) EXCEPT !.rc = rc]>> \o Tail(Rest)

CrcBankCall(bank) ==
    <<CallEv("stm32h7_crc_bank", stm32h7_crc_bank_regbase(bank))>> \o UnlockCall(bank)

\* lines 421-424: unlock result, then FLASH_CR = FLASH_CR_CRC_EN
stm32h7_crc_bank_cr ==
    /\ At("stm32h7_crc_bank", "cr")
    /\ LET fn == "stm32h7_crc_bank"
           b  == Top.regbase
       IN  IF ~ret
           THEN /\ stack' = CrcBankReturn(-1)
                /\ trace' = Append(trace, IntRetEv(fn, b, -1))
                /\ UNCHANGED hw_lock
           ELSE /\ trace' = Append(trace, WrEv(fn, b + FLASH_CR, FLASH_CR_CRC_EN))
                /\ hw_lock' = LockAfterCRWrite(b, FLASH_CR_CRC_EN)
                /\ stack' = <<[Top EXCEPT !.pc = "crccr"]>> \o Rest
    /\ UNCHANGED <<ret, op, hw_key, commErr, timeout, flash, session, sr_read>>

\* lines 427-428: the configuration, then the same word with START_CRC
stm32h7_crc_bank_crccr_start ==
    /\ At("stm32h7_crc_bank", "crccr")
    /\ LET fn == "stm32h7_crc_bank"
           b  == Top.regbase
       IN  /\ trace' = trace \o
                << WrEv(fn, b + FLASH_CRCCR, stm32h7_crc_bank_crccr),
                   WrEv(fn, b + FLASH_CRCCR,
                        Or(stm32h7_crc_bank_crccr, FLASH_CRCCR_START_CRC)) >>
           /\ stack' = <<[Top EXCEPT !.pc = "poll"]>> \o Rest
    /\ UNCHANGED <<ret, op, hw_lock, hw_key, commErr, timeout, flash, session, sr_read>>

\* lines 430-431, 443: read the status; return 0 when CRC_BUSY reads clear
stm32h7_crc_bank_poll ==
    /\ At("stm32h7_crc_bank", "poll")
    /\ LET fn == "stm32h7_crc_bank"
           b  == Top.regbase
       IN  \E v \in target_mem_read32_SR(b) :
             /\ sr_read' = SrRead(fn, b, v)
             /\ IF stm32h7_crc_bank_again(v)
                THEN /\ stack' = <<[Top EXCEPT !.sr = v, !.pc = "body"]>> \o Rest
                     /\ UNCHANGED trace
                ELSE /\ stack' = CrcBankReturn(0)
                     /\ trace' = Append(trace, IntRetEv(fn, b, 0))
    /\ UNCHANGED <<ret, op, hw_lock, hw_key, commErr, timeout, flash, session>>

\* lines 432-441: the loop body
stm32h7_crc_bank_body ==
    /\ At("stm32h7_crc_bank", "body")
    /\ LET fn == "stm32h7_crc_bank"
           b  == Top.regbase
       IN  IF commErr \/ stm32h7_crc_bank_read_error(Top.sr)
           THEN /\ commErr' = FALSE
                /\ stack' = CrcBankReturn(-1)
                /\ trace' = Append(trace, IntRetEv(fn, b, -1))
           ELSE /\ stack' = <<[Top EXCEPT !.pc = "poll"]>> \o Rest
                /\ UNCHANGED <<trace, commErr>>
    /\ UNCHANGED <<ret, op, hw_lock, hw_key, timeout, flash, session, sr_read>>

-----------------------------------------------------------------------------
(* stm32h7_crc, stm32h7.c:446-456                                          *)

\* lines 450, 452: if (stm32h7_crc_bank(...)) return false
stm32h7_crc_failed(rc) == rc # 0

\* line 451: where the digest of bank 1 is read
stm32h7_crc_crc1_addr == FPEC1_BASE + FLASH_CRCDATA

\* line 453: where the digest of bank 2 is read
stm32h7_crc_crc2_addr == FPEC1_BASE + FLASH_CRCDATA

\* line 450: entry, stm32h7_crc_bank(t, BANK1_START)
stm32h7_crc ==
    /\ Idle
    /\ op' = "stm32h7_crc"
    /\ sr_read' = NoSrRead
    /\ timeout' = "unset"
    /\ trace' = <<CallEv("stm32h7_crc", 0)>> \o CrcBankCall(BANK1_START)
    /\ stack' = CrcBankFrames(BANK1_START) \o
                  <<[fn |-> "stm32h7_crc", pc |-> "crc1", rc |-> 0, crc1 |-> 0]>>
    /\ ret' = FALSE
    /\ UNCHANGED <<hw_lock, hw_key, commErr, flash, session>>

\* lines 450-452: result of bank 1, its digest, stm32h7_crc_bank(t, BANK2_START)
stm32h7_crc_crc1 ==
    /\ At("stm32h7_crc", "crc1")
    /\ LET fn == "stm32h7_crc"
       IN  IF stm32h7_crc_failed(Top.rc)
           THEN /\ stack' = Rest
                /\ ret' = FALSE
                /\ trace' = Append(trace, RetEv(fn, 0, FALSE))
           ELSE \E v \in target_mem_read32_CRCDATA(stm32h7_crc_crc1_addr - FLASH_CRCDATA) :
                /\ trace' = trace \o <<RdEv(fn, stm32h7_crc_crc1_addr, v)>>
                                   \o CrcBankCall(BANK2_START)
                /\ stack' = CrcBankFrames(BANK2_START) \o
                              <<[Top EXCEPT !.pc = "crc2", !.crc1 = v]>> \o Rest
                /\ UNCHANGED ret
    /\ UNCHANGED <<op, hw_lock, hw_key, commErr, timeout, flash, session, sr_read>>

\* lines 452-455: result of bank 2, its digest, the report
stm32h7_crc_crc2 ==
    /\ At("stm32h7_crc", "crc2")
    /\ LET fn == "stm32h7_crc"
       IN  IF stm32h7_crc_failed(Top.rc)
           THEN /\ ret' = FALSE
                /\ trace' = Append(trace, RetEv(fn, 0, FALSE))
           ELSE \E v \in target_mem_read32_CRCDATA(stm32h7_crc_crc2_addr - FLASH_CRCDATA) :
                /\ trace' = trace \o <<RdEv(fn, stm32h7_crc_crc2_addr, v),
                                       OutEv(fn, Top.crc1, v),
                                       RetEv(fn, 0, TRUE)>>
                /\ ret' = TRUE
    /\ stack' = Rest
    /\ UNCHANGED <<op, hw_lock, hw_key, commErr, timeout, flash, session, sr_read>>

-----------------------------------------------------------------------------
(* stm32h7_add_flash, stm32h7.c:163-184                                    *)

\* mutant: every descriptor is given the register base of bank 1
stm32h7_add_flash_bank1(addr, length, blocksize) ==
    [start |-> addr, length |-> length, blocksize |-> blocksize,
     write |-> "stm32h7_flash_write",
     regbase |-> FPEC1_BASE,
     psize |-> ALIGN_DWORD]

\* stm32h7_add_flash, stm32h7.c:163-184
stm32h7_add_flash(addr, length, blocksize) ==
    [start |-> addr, length |-> length, blocksize |-> blocksize,
     write |-> "stm32h7_flash_write",
     regbase |-> IF addr >= BANK2_START THEN FPEC2_BASE ELSE FPEC1_BASE,
     psize |-> ALIGN_DWORD]

-----------------------------------------------------------------------------
(* stm32h7_probe, stm32h7.c:224-244                                        *)

\* line 226
stm32h7_probe_match(part_id) ==
    part_id = ID_STM32H74x \/ part_id = ID_STM32H7Bx \/ part_id = ID_STM32H72x

\* line 239
stm32h7_probe_dbgmcu_cr == Or(DBGSLEEP_D1, D1DBGCKEN)

\* struct stm32h7_priv_s, and the target before stm32h7_probe has
\* allocated one
Storage(v) == [alloc |-> TRUE, dbg_cr |-> v]
NoStorage  == [alloc |-> FALSE, dbg_cr |-> 0]

\* lines 224-231: entry, called by the scan for a newly found target (its
\* memory map is empty); a part this driver does not know is declined
stm32h7_probe(part_id) ==
    /\ Idle
    /\ ~attached
    /\ op' = "stm32h7_probe"
    /\ sr_read' = NoSrRead
    /\ timeout' = "unset"
    /\ ret' = FALSE
    /\ flash' = <<>>
    /\ target_storage' = NoStorage
    /\ IF stm32h7_probe_match(part_id)
       THEN /\ trace' = <<CallEv("stm32h7_probe", part_id)>>
            /\ stack' = <<[fn |-> "stm32h7_probe", pc |-> "read"]>>
       ELSE /\ trace' = <<CallEv("stm32h7_probe", part_id),
                          RetEv("stm32h7_probe", part_id, FALSE)>>
            /\ stack' = <<>>
    /\ UNCHANGED <<hw_lock, hw_key, commErr, attached, dbgmcu_cr>>

\* lines 233-235: priv_storage->dbg_cr = target_mem_read32(t, DBGMCU_CR)
stm32h7_probe_read ==
    /\ At("stm32h7_probe", "read")
    /\ \E v \in target_mem_read32_DBGMCU_CR :
          /\ target_storage' = Storage(v)
          /\ trace' = Append(trace, RdEv("stm32h7_probe", DBGMCU_CR, v))
    /\ stack' = <<[Top EXCEPT !.pc = "write"]>> \o Rest
    /\ UNCHANGED <<ret, op, sr_read, hw_lock, hw_key, commErr, timeout, flash,
                   attached, dbgmcu_cr>>

\* lines 239-241: target_mem_write32(t, DBGMCU_CR, dbgmcu_cr); return true
stm32h7_probe_write ==
    /\ At("stm32h7_probe", "write")
    /\ trace' = trace \o
          << WrEv("stm32h7_probe", DBGMCU_CR, stm32h7_probe_dbgmcu_cr),
             RetEv("stm32h7_probe", trace[1].addr, TRUE) >>
    /\ dbgmcu_cr' = IF Delivered THEN stm32h7_probe_dbgmcu_cr ELSE dbgmcu_cr
    /\ stack' = Rest
    /\ ret' = TRUE
    /\ UNCHANGED <<op, sr_read, hw_lock, hw_key, commErr, timeout, flash,
                   attached, target_storage>>

-----------------------------------------------------------------------------
(* stm32h7_attach, stm32h7.c:186-214                                       *)

\* lines 186-189: entry; cortexm_attach(t) succeeds or it does not
stm32h7_attach ==
    /\ Idle
    /\ target_storage.alloc
    /\ ~attached
    /\ op' = "stm32h7_attach"
    /\ sr_read' = NoSrRead
    /\ timeout' = "unset"
    /\ ret' = FALSE
    /\ \E cortexm_attach \in BOOLEAN :
          IF ~cortexm_attach
          THEN /\ trace' = <<CallEv("stm32h7_attach", 0), RetEv("stm32h7_attach", 0, FALSE)>>
               /\ stack' = <<>>
          ELSE /\ trace' = <<CallEv("stm32h7_attach", 0)>>
               /\ stack' = <<[fn |-> "stm32h7_attach", pc |-> "optsr"]>>
    /\ UNCHANGED <<hw_lock, hw_key, commErr, flash, session>>

\* lines 193-213: the watchdog warning, target_mem_map_free, the two
\* flash descriptors (allocation is taken to succeed)
stm32h7_attach_optsr ==
    /\ At("stm32h7_attach", "optsr")
    /\ \E optsr \in target_mem_read32_OPTSR :
          trace' = trace \o
             <<RdEv("stm32h7_attach", FPEC1_BASE + FLASH_OPTSR, optsr)>> \o
             (IF And(optsr, FLASH_OPTSR_IWDG1_SW) = 0
              THEN <<OutEv("stm32h7_attach", 0, 0)>> ELSE <<>>) \o
             <<RetEv("stm32h7_attach", 0, TRUE)>>
    /\ flash' = << stm32h7_add_flash(BANK1_START, BANK_LENGTH, FLASH_SECTOR_SIZE),
                   stm32h7_add_flash(BANK2_START, BANK_LENGTH, FLASH_SECTOR_SIZE) >>
    /\ attached' = TRUE
    /\ stack' = Rest
    /\ ret' = TRUE
    /\ UNCHANGED <<op, sr_read, hw_lock, hw_key, commErr, timeout,
                   target_storage, dbgmcu_cr>>

-----------------------------------------------------------------------------
(* stm32h7_detach, stm32h7.c:216-222                                       *)

\* mutant: the value the driver set at probe is written again
stm32h7_detach_dbg_cr_own(ps) == Or(DBGSLEEP_D1, D1DBGCKEN)

\* lines 218-220: ps->dbg_cr
stm32h7_detach_dbg_cr(ps) == ps.dbg_cr

\* line 216: entry
stm32h7_detach ==
    /\ Idle
    /\ attached
    /\ op' = "stm32h7_detach"
    /\ sr_read' = NoSrRead
    /\ timeout' = "unset"
    /\ ret' = FALSE
    /\ trace' = <<CallEv("stm32h7_detach", 0)>>
    /\ stack' = <<[fn |-> "stm32h7_detach", pc |-> "write"]>>
    /\ UNCHANGED <<hw_lock, hw_key, commErr, flash, session>>

\* lines 220-221: target_mem_write32(t, DBGMCU_CR, ps->dbg_cr); cortexm_detach(t)
stm32h7_detach_write ==
    /\ At("stm32h7_detach", "write")
    /\ LET v == stm32h7_detach_dbg_cr(target_storage)
       IN  /\ trace' = trace \o
                 <<WrEv("stm32h7_detach", DBGMCU_CR, v), RetEv("stm32h7_detach", 0, FALSE)>>
           /\ dbgmcu_cr' = IF Delivered THEN v ELSE dbgmcu_cr
    /\ attached' = FALSE
    /\ stack' = Rest
    /\ UNCHANGED <<ret, op, sr_read, hw_lock, hw_key, commErr, timeout, flash,
                   target_storage>>

-----------------------------------------------------------------------------
(* stm32h7_cmd_psize, stm32h7.c:457-493                                    *)

\* lines 462-467: the parallelism of the last descriptor this driver owns
RECURSIVE stm32h7_cmd_psize_get(_, _)
stm32h7_cmd_psize_get(fl, psize) ==
    IF fl = <<>> THEN psize
    ELSE stm32h7_cmd_psize_get(Tail(fl),
            IF Head(fl).write = "stm32h7_flash_write" THEN Head(fl).psize ELSE psize)

\* lines 469-471
stm32h7_cmd_psize_name(psize) ==
    IF psize = ALIGN_DWORD THEN "x64"
    ELSE IF psize = ALIGN_WORD THEN "x32"
    ELSE IF psize = ALIGN_HALFWORD THEN "x16"
    ELSE "x8"

\* no parallelism: the argument was not recognised
USAGE == -1

\* mutant: an unrecognised argument is taken as x8
stm32h7_cmd_psize_parse_lenient(arg) ==
    IF arg = "x16" THEN ALIGN_HALFWORD
    ELSE IF arg = "x32" THEN ALIGN_WORD
    ELSE IF arg = "x64" THEN ALIGN_DWORD
    ELSE ALIGN_BYTE

\* lines 474-485
stm32h7_cmd_psize_parse(arg) ==
    IF arg = "x8" THEN ALIGN_BYTE
    ELSE IF arg = "x16" THEN ALIGN_HALFWORD
    ELSE IF arg = "x32" THEN ALIGN_WORD
    ELSE IF arg = "x64" THEN ALIGN_DWORD
    ELSE USAGE

\* mutant: only the first descriptor is given the new parallelism
stm32h7_cmd_psize_set_first(fl, psize) ==
    [i \in DOMAIN fl |-> IF i = 1 THEN [fl[i] EXCEPT !.psize = psize] ELSE fl[i]]

\* lines 486-490
stm32h7_cmd_psize_set(fl, psize) ==
    [i \in DOMAIN fl |->
       IF fl[i].write = "stm32h7_flash_write"
       THEN [fl[i] EXCEPT !.psize = psize]
       ELSE fl[i]]

\* The command touches no register: it is one step.  argv1 is argv[1].
stm32h7_cmd_psize(argc, argv1) ==
    /\ Idle
    /\ attached
    /\ op' = "stm32h7_cmd_psize"
    /\ sr_read' = NoSrRead
    /\ timeout' = "unset"
    /\ stack' = <<>>
    /\ LET fn   == "stm32h7_cmd_psize"
           call == Ev(fn, "call", argc, argv1, FALSE)
       IN  IF argc = 1
           THEN /\ trace' = << call,
                        OutEv(fn, 0, stm32h7_cmd_psize_name(
                                        stm32h7_cmd_psize_get(flash, ALIGN_DWORD))),
                        RetEv(fn, argc, TRUE) >>
                /\ ret' = TRUE
                /\ UNCHANGED flash
           ELSE IF stm32h7_cmd_psize_parse(argv1) = USAGE
           THEN /\ trace' = <<call, OutEv(fn, 0, "usage"), RetEv(fn, argc, FALSE)>>
                /\ ret' = FALSE
                /\ UNCHANGED flash
           ELSE /\ trace' = <<call, RetEv(fn, argc, TRUE)>>
                /\ ret' = TRUE
                /\ flash' = stm32h7_cmd_psize_set(flash, stm32h7_cmd_psize_parse(argv1))
    /\ UNCHANGED <<hw_lock, hw_key, commErr, session>>

-----------------------------------------------------------------------------
(* Environment steps.                                                      *)

\* The debug transport fails while an operation is running.  The failure
\* stays pending until target_check_error collects it.
TransportFault ==
    /\ ~Idle
    /\ ~commErr
    /\ commErr' = TRUE
    /\ UNCHANGED <<stack, ret, op, trace, hw_lock, hw_key, timeout, flash, session, sr_read>>

\* Wall-clock time passes the deadline set by platform_timeout_set.
TimeoutExpires ==
    /\ ~Idle
    /\ timeout = "armed"
    /\ timeout' = "expired"
    /\ UNCHANGED <<stack, ret, op, trace, hw_lock, hw_key, commErr, flash, session, sr_read>>

-----------------------------------------------------------------------------
(* The session.                                                            *)

\* The longest erase request, in sectors.
MaxSectors == 2

\* Requests the flash layer hands to a bank's erase and write hooks:
\* offsets into the bank and lengths that stay inside it.
EraseOffsets == {0, FLASH_SECTOR_SIZE - 1, (NUM_SECTOR_PER_BANK - 1) * FLASH_SECTOR_SIZE}
EraseLengths == {1, 2} \cup {k * FLASH_SECTOR_SIZE : k \in 1..MaxSectors}
WriteOffsets == {0, 2048}
WriteLengths == {2048}

InBank(i, off, len) == off + len <= flash[i].length

\* After probe and attach on a device out of reset: both banks locked,
\* two flash descriptors with the default parallelism (stm32h7.c:211-212).
Init ==
    /\ stack = <<>>
    /\ ret = FALSE
    /\ op = "none"
    /\ trace = <<>>
    /\ sr_read = NoSrRead
    /\ hw_lock = [b \in Bases |-> TRUE]
    /\ hw_key = [b \in Bases |-> 0]
    /\ commErr = FALSE
    /\ timeout = "unset"
    /\ flash = << stm32h7_add_flash(BANK1_START, BANK_LENGTH, FLASH_SECTOR_SIZE),
                  stm32h7_add_flash(BANK2_START, BANK_LENGTH, FLASH_SECTOR_SIZE) >>
    /\ attached = TRUE
    /\ target_storage = Storage(0)
    /\ dbgmcu_cr = stm32h7_probe_dbgmcu_cr

\* The steps inside the operations on the flash.
FlashSteps ==
    \/ stm32h7_flash_erase_acr
    \/ stm32h7_flash_erase_loop
    \/ stm32h7_flash_erase_start
    \/ stm32h7_flash_erase_next
    \/ stm32h7_flash_write_psize
    \/ stm32h7_flash_write_pg
    \/ stm32h7_flash_write_data
    \/ stm32h7_flash_write_close
    \/ stm32h7_mass_erase_bank1
    \/ stm32h7_mass_erase_bank2
    \/ stm32h7_mass_erase_wait1
    \/ stm32h7_mass_erase_wait2
    \/ stm32h7_mass_erase_check1
    \/ stm32h7_mass_erase_check2
    \/ stm32h7_erase_bank
    \/ stm32h7_wait_erase_bank_read
    \/ stm32h7_wait_erase_bank_body
    \/ stm32h7_check_bank
    \/ stm32h7_crc_crc1
    \/ stm32h7_crc_crc2
    \/ stm32h7_crc_bank_cr
    \/ stm32h7_crc_bank_crccr_start
    \/ stm32h7_crc_bank_poll
    \/ stm32h7_crc_bank_body
    \/ stm32h7_flash_unlock_lock_check
    \/ stm32h7_flash_unlock_key1
    \/ stm32h7_flash_unlock_key2
    \/ stm32h7_flash_unlock_final
    \/ stm32h7_flash_busy_wait_read
    \/ stm32h7_flash_busy_wait_test

\* The operations on the flash of an attached target.
Driver ==
    \/ \E i \in DOMAIN flash, off \in EraseOffsets, len \in EraseLengths :
          InBank(i, off, len) /\ stm32h7_flash_erase(i, flash[i].start + off, len)
    \/ \E i \in DOMAIN flash, off \in WriteOffsets, len \in WriteLengths :
          InBank(i, off, len) /\ stm32h7_flash_write(i, flash[i].start + off, len)
    \/ stm32h7_mass_erase
    \/ stm32h7_crc
    \/ FlashSteps

\* Values DBGMCU_CR may hold when the device is first scanned.
DbgmcuResetValues == {0, D3DBGCKEN}

\* Part numbers the scan may hand to stm32h7_probe: the three families of
\* this driver and an STM32F4.
PartIds == {ID_STM32H74x, ID_STM32H7Bx, ID_STM32H72x, 1043}

\* Arguments of the psize command.
PsizeArgs == {"x8", "x16", "x32", "x64", "x128"}

\* One request per bank and operation for the session as a whole.
SessionEraseOffsets == {FLASH_SECTOR_SIZE - 1}
SessionEraseLengths == {2}
SessionWriteOffsets == {0}

\* A device that has not been scanned yet.
SessionInit ==
    /\ stack = <<>>
    /\ ret = FALSE
    /\ op = "none"
    /\ trace = <<>>
    /\ sr_read = NoSrRead
    /\ hw_lock = [b \in Bases |-> TRUE]
    /\ hw_key = [b \in Bases |-> 0]
    /\ commErr = FALSE
    /\ timeout = "unset"
    /\ flash = <<>>
    /\ attached = FALSE
    /\ target_storage = NoStorage
    /\ dbgmcu_cr \in DbgmcuResetValues

\* The session: scan, attach, the psize command and the flash operations
\* of the attached target, detach.
SessionDriver ==
    \/ \E part_id \in PartIds : stm32h7_probe(part_id)
    \/ stm32h7_probe_read
    \/ stm32h7_probe_write
    \/ stm32h7_attach
    \/ stm32h7_attach_optsr
    \/ stm32h7_detach
    \/ stm32h7_detach_write
    \/ stm32h7_cmd_psize(1, "")
    \/ \E arg \in PsizeArgs : stm32h7_cmd_psize(2, arg)
    \/ \E i \in DOMAIN flash, off \in SessionEraseOffsets, len \in SessionEraseLengths :
          attached /\ stm32h7_flash_erase(i, flash[i].start + off, len)
    \/ \E i \in DOMAIN flash, off \in SessionWriteOffsets, len \in WriteLengths :
          attached /\ stm32h7_flash_write(i, flash[i].start + off, len)
    \/ attached /\ stm32h7_mass_erase
    \/ attached /\ stm32h7_crc
    \/ FlashSteps

SessionNext == SessionDriver \/ TransportFault \/ TimeoutExpires

SessionSpec == SessionInit /\ [][SessionNext]_vars

Next == Driver \/ TransportFault \/ TimeoutExpires

Spec == Init /\ [][Next]_vars

\* The driver is a running thread: while a step of it is possible it takes one.
FairSpec == Spec /\ WF_vars(Driver)

-----------------------------------------------------------------------------
(* Reading the history.                                                    *)

N == Len(trace)
Last == trace[N]
Finished(fn) == Idle /\ op = fn

IsCall(e, fn, a)   == e.kind = "call" /\ e.by = fn /\ e.addr = a
IsRet(e, fn, a, r) == e.kind = "ret" /\ e.by = fn /\ e.addr = a /\ e.res = r
IsWr(e, a)         == e.kind = "w" /\ e.addr = a
IsRd(e, a)         == e.kind = "r" /\ e.addr = a

\* fn has just returned r for bank b: its return is the newest entry
JustReturned(fn, b, r) == N > 0 /\ IsRet(Last, fn, b, r)

\* the status read that the newest entry of the history rests on
ReadBy(fn, b) == sr_read.by = fn /\ sr_read.base = b

ErrorBits(sr) == And(sr, FLASH_SR_ERROR_MASK)

-----------------------------------------------------------------------------
(* C1 *)

\* the four returns a successful mass erase must have seen, in order
BothWaitedThenBothClean ==
    \E i \in 1..N :
       /\ IsRet(trace[i], "stm32h7_wait_erase_bank", FPEC1_BASE, TRUE)
       /\ \E j \in (i+1)..N :
            /\ IsRet(trace[j], "stm32h7_wait_erase_bank", FPEC2_BASE, TRUE)
            /\ \E k \in (j+1)..N :
                 /\ IsRet(trace[k], "stm32h7_check_bank", FPEC1_BASE, TRUE)
                 /\ \E l \in (k+1)..N :
                      IsRet(trace[l], "stm32h7_check_bank", FPEC2_BASE, TRUE)

\* C1: stm32h7_mass_erase returns success only after both waits have
\* returned and then both banks' status reads, FPEC1 first and FPEC2
\* second, showed no bit of the error mask.  A check of a bank answers
\* success only for a status word without error bits, and a final status
\* of bank 2 with an error bit makes the operation fail.
C1_MassEraseSuccessOnlyIfBothBanksClean ==
    /\ Finished("stm32h7_mass_erase") /\ ret => BothWaitedThenBothClean
    /\ \A b \in Bases :
          JustReturned("stm32h7_check_bank", b, TRUE) =>
             ReadBy("stm32h7_check_bank", b) /\ ErrorBits(sr_read.val) = 0
    /\ ( /\ Finished("stm32h7_mass_erase")
         /\ ReadBy("stm32h7_check_bank", FPEC2_BASE)
         /\ ErrorBits(sr_read.val) # 0 ) => ~ret

\* bank 1 read clean, bank 2 read with an error bit latched, and the
\* operation has returned
C1_Witness ==
    /\ Finished("stm32h7_mass_erase")
    /\ \E k \in 1..N : IsRet(trace[k], "stm32h7_check_bank", FPEC1_BASE, TRUE)
    /\ ReadBy("stm32h7_check_bank", FPEC2_BASE)
    /\ ErrorBits(sr_read.val) # 0

-----------------------------------------------------------------------------
(* C2 *)

BothBanksStarted ==
    /\ \E i \in 1..N : IsRet(trace[i], "stm32h7_erase_bank", FPEC1_BASE, TRUE)
    /\ \E i \in 1..N : IsRet(trace[i], "stm32h7_erase_bank", FPEC2_BASE, TRUE)

\* C2: when unlock and issue of the bank erase succeeded on both banks,
\* stm32h7_mass_erase goes on to wait for both banks; it does not return
\* before it has entered the wait phase.
C2_BothStartedGoesOnToWait ==
    ( Finished("stm32h7_mass_erase") /\ BothBanksStarted ) =>
       \E i \in 1..N : IsCall(trace[i], "stm32h7_wait_erase_bank", FPEC1_BASE)

-----------------------------------------------------------------------------
(* C3 *)

\* C3: a bank erase that could not be started, on bank 1 or on bank 2,
\* makes stm32h7_mass_erase return failure.
C3_StartFailureFailsMassErase ==
    ( /\ Finished("stm32h7_mass_erase")
      /\ \E b \in Bases, i \in 1..N : IsRet(trace[i], "stm32h7_erase_bank", b, FALSE) )
    => ~ret

-----------------------------------------------------------------------------
(* C4 *)

InWaitPhase ==
    ~Idle /\ op = "stm32h7_mass_erase" /\ Top.fn = "stm32h7_wait_erase_bank"

\* C4 as claimed: once the timeout set before the wait phase has expired,
\* the wait phase ends and stm32h7_mass_erase returns.
C4_WaitPhaseEndsAfterTimeout ==
    (InWaitPhase /\ timeout = "expired") ~> Finished("stm32h7_mass_erase")

\* C4, amended: the wait on a bank ends only with a status read that shows
\* QW clear (success) or with a communication failure collected while QW
\* read set (failure); with QW set and no communication failure the loop
\* polls again, whatever the state of the timeout.
C4_WaitEndsOnlyOnQWClearOrCommFailure ==
    [][ ( InWaitPhase /\ stack' # stack ) =>
          \/ /\ Top.pc = "read"
             /\ stack' = Rest /\ ret'
             /\ And(sr_read'.val, FLASH_SR_QW) = 0
          \/ /\ Top.pc = "read"
             /\ stack' = <<[Top EXCEPT !.sr = sr_read'.val, !.pc = "body"]>> \o Rest
             /\ And(sr_read'.val, FLASH_SR_QW) # 0
          \/ /\ Top.pc = "body" /\ commErr
             /\ stack' = Rest /\ ~ret'
          \/ /\ Top.pc = "body" /\ ~commErr
             /\ stack' = <<[Top EXCEPT !.pc = "read"]>> \o Rest
      ]_vars

\* the deadline has passed, QW was read set, and the driver is about to
\* poll the bank again
C4_Witness ==
    /\ InWaitPhase
    /\ Top.pc = "read"
    /\ And(Top.sr, FLASH_SR_QW) # 0
    /\ timeout = "expired"

-----------------------------------------------------------------------------
(* C5 *)

BusyIndicators ==
    Or(Or(FLASH_SR_BSY, FLASH_SR_WBNE), Or(FLASH_SR_QW, FLASH_SR_CRC_BUSY))

\* C5 as claimed: stm32h7_flash_busy_wait never returns success while the
\* last status word it read has any of the four busy indicators set.
C5_NoSuccessWhileAnyBusyIndicator ==
    \A b \in Bases :
       JustReturned("stm32h7_flash_busy_wait", b, TRUE) =>
          ReadBy("stm32h7_flash_busy_wait", b) /\ And(sr_read.val, BusyIndicators) = 0

\* C5, amended: stm32h7_flash_busy_wait never returns success while the
\* last status word it read has BSY or QW set or holds an error bit (WBNE
\* and CRC_BUSY are not waited for), and a read that shows an error-mask
\* bit is the last read of the call: the call returns failure on it.
C5_NoSuccessWhileBsyOrQw ==
    /\ [] ( \A b \in Bases :
              JustReturned("stm32h7_flash_busy_wait", b, TRUE) =>
                 /\ ReadBy("stm32h7_flash_busy_wait", b)
                 /\ And(sr_read.val, Or(FLASH_SR_BSY, FLASH_SR_QW)) = 0
                 /\ ErrorBits(sr_read.val) = 0 )
    /\ [][ ( /\ At("stm32h7_flash_busy_wait", "test")
             /\ ErrorBits(Top.sr) # 0
             /\ stack' # stack )
           => stack' = Rest /\ ~ret' ]_vars

\* a successful return on a status word with WBNE set
C5_Witness ==
    \E b \in Bases :
       /\ JustReturned("stm32h7_flash_busy_wait", b, TRUE)
       /\ And(sr_read.val, FLASH_SR_WBNE) # 0

-----------------------------------------------------------------------------
(* C6 *)

\* C6: when stm32h7_flash_busy_wait fails on a status word with error
\* bits, the entry before its return is a write to the same bank's
\* FLASH_CCR of exactly status AND error mask.
C6_ErrorBitsWrittenToCCR ==
    \A b \in Bases :
       ( JustReturned("stm32h7_flash_busy_wait", b, FALSE) /\ ErrorBits(sr_read.val) # 0 )
       => /\ ReadBy("stm32h7_flash_busy_wait", b)
          /\ N >= 2
          /\ trace[N-1] = WrEv("stm32h7_flash_busy_wait", b + FLASH_CCR,
                               ErrorBits(sr_read.val))
          /\ ErrorBits(trace[N-1].val) = trace[N-1].val

\* the status word had WRPERR (bit 17) together with EOP and QW, and the
\* write to FLASH_CCR carried bit 17 alone
C6_Witness ==
    \E b \in Bases :
       /\ JustReturned("stm32h7_flash_busy_wait", b, FALSE)
       /\ sr_read.val = Or(Or(FLASH_SR_WRPERR, FLASH_SR_EOP), FLASH_SR_QW)
       /\ trace[N-1].val = FLASH_SR_WRPERR

-----------------------------------------------------------------------------
(* C7 *)

RECURSIVE LastCallBefore(_, _, _)
LastCallBefore(fn, b, i) ==
    IF i = 0 THEN 0
    ELSE IF IsCall(trace[i], fn, b) THEN i
    ELSE LastCallBefore(fn, b, i - 1)

\* the functions that fail on an error bit of the status word they read
ErrorTesters == {"stm32h7_flash_busy_wait", "stm32h7_check_bank"}

\* C7: an operation that has returned failure because its last status
\* read showed error bits has, since the reading function was called,
\* written those bits to the FLASH_CCR of the bank it read.
C7_ErrorAcknowledgedBeforeFailure ==
    ( /\ Idle /\ op # "none" /\ ~ret
      /\ sr_read.by \in ErrorTesters
      /\ ErrorBits(sr_read.val) # 0 )
    => \E i \in (LastCallBefore(sr_read.by, sr_read.base, N) + 1)..N :
          /\ IsWr(trace[i], sr_read.base + FLASH_CCR)
          /\ trace[i].val = ErrorBits(sr_read.val)

-----------------------------------------------------------------------------
(* C8 *)

\* C8 as claimed: a stm32h7_flash_busy_wait that fails on a communication
\* failure (its status word shows no error bit) returns without a write.
C8_CommFailureWritesNothing ==
    \A b \in Bases :
       ( JustReturned("stm32h7_flash_busy_wait", b, FALSE) /\ ErrorBits(sr_read.val) = 0 )
       => trace[N-1].kind # "w"

\* C8, amended: when target_check_error reports a failure for a status
\* read, stm32h7_flash_busy_wait returns failure without another status
\* read, after exactly one write: status AND error mask, which is 0, to
\* the bank's FLASH_CCR.
C8_CommFailureWritesZeroToCCR ==
    [][ ( /\ At("stm32h7_flash_busy_wait", "test")
          /\ ErrorBits(Top.sr) = 0
          /\ commErr
          /\ stack' # stack )
        => /\ stack' = Rest
           /\ ~ret'
           /\ trace' = trace \o
                << WrEv("stm32h7_flash_busy_wait", Top.regbase + FLASH_CCR, 0),
                   RetEv("stm32h7_flash_busy_wait", Top.regbase, FALSE) >>
      ]_vars

\* a failure return on a status word without error bits
C8_Witness ==
    \E b \in Bases :
       /\ JustReturned("stm32h7_flash_busy_wait", b, FALSE)
       /\ ErrorBits(sr_read.val) = 0
       /\ IsWr(trace[N-1], b + FLASH_CCR)

-----------------------------------------------------------------------------
(* C9 *)

CommandBits == Or(Or(FLASH_CR_SER, FLASH_CR_BER), FLASH_CR_PG)

\* a sector-erase, bank-erase or program word written to FLASH_CR of bank b
IsCommand(e, b) ==
    IsWr(e, b + FLASH_CR) /\ And(e.val, CommandBits) # 0

\* C9: every command word in the history is preceded, in the same
\* operation, by a successful stm32h7_flash_unlock of the register base it
\* is written to; stm32h7_flash_unlock returns success only on a read of
\* that base's FLASH_CR with the lock bit clear; and no command word
\* reaches a bank whose lock bit is set.
C9_NoCommandWhileLocked ==
    /\ [] ( \A b \in Bases :
              /\ \A i \in 1..N :
                    IsCommand(trace[i], b) =>
                       \E j \in 1..(i-1) : IsRet(trace[j], "stm32h7_flash_unlock", b, TRUE)
              /\ JustReturned("stm32h7_flash_unlock", b, TRUE) =>
                    /\ N >= 2
                    /\ IsRd(trace[N-1], b + FLASH_CR)
                    /\ And(trace[N-1].val, FLASH_CR_LOCK) = 0 )
    /\ [][ \A b \in Bases :
             \A i \in (N+1)..Len(trace') :
                ( IsCommand(trace'[i], b) /\ ~commErr ) => ~hw_lock[b] ]_vars

\* a sector-erase word was written to bank 2, and bank 2 is unlocked
C9_Witness ==
    /\ \E i \in 1..N : IsCommand(trace[i], FPEC2_BASE)
    /\ ~hw_lock[FPEC2_BASE]
    /\ op = "stm32h7_flash_erase"

-----------------------------------------------------------------------------
(* C10 *)

Locked(cr) == And(cr, FLASH_CR_LOCK) # 0

\* the entries of the stm32h7_flash_unlock call that has just returned,
\* without its own call and return entries
UnlockSegment(b) ==
    SubSeq(trace, LastCallBefore("stm32h7_flash_unlock", b, N) + 1, N - 1)

\* the entries after the busy-wait inside that call
RECURSIVE AfterBusyWait(_)
AfterBusyWait(seg) ==
    IF seg = <<>> THEN <<>>
    ELSE IF Head(seg).kind = "ret" /\ Head(seg).by = "stm32h7_flash_busy_wait"
    THEN Tail(seg)
    ELSE AfterBusyWait(Tail(seg))

BusyWaitPart(seg) == SubSeq(seg, 1, Len(seg) - Len(AfterBusyWait(seg)))

\* C10: a call of stm32h7_flash_unlock is the busy-wait and, if that
\* failed, nothing else (no key); else one read of FLASH_CR, then KEY1 and
\* KEY2 once each in that order if and only if that read showed the lock
\* bit, then a final read of FLASH_CR, and the result is success exactly
\* when the final read shows the lock bit clear.
C10_UnlockSequence ==
    \A b \in Bases, r \in BOOLEAN :
       JustReturned("stm32h7_flash_unlock", b, r) =>
          LET seg  == UnlockSegment(b)
              wait == BusyWaitPart(seg)
              rest == AfterBusyWait(seg)
              fn   == "stm32h7_flash_unlock"
          IN  /\ wait # <<>>
              /\ \A i \in 1..Len(wait) : wait[i].by = "stm32h7_flash_busy_wait"
              /\ IF IsRet(wait[Len(wait)], "stm32h7_flash_busy_wait", b, FALSE)
                 THEN rest = <<>> /\ ~r
                 ELSE /\ Len(rest) >= 2
                      /\ IsRd(rest[1], b + FLASH_CR)
                      /\ IF Locked(rest[1].val)
                         THEN /\ Len(rest) = 4
                              /\ rest[2] = WrEv(fn, b + FLASH_KEYR, KEY1)
                              /\ rest[3] = WrEv(fn, b + FLASH_KEYR, KEY2)
                         ELSE Len(rest) = 2
                      /\ IsRd(rest[Len(rest)], b + FLASH_CR)
                      /\ r = ~Locked(rest[Len(rest)].val)

\* an unlock that wrote both keys and then read the lock bit clear
C10_Witness ==
    \E b \in Bases :
       /\ JustReturned("stm32h7_flash_unlock", b, TRUE)
       /\ Len(AfterBusyWait(UnlockSegment(b))) = 4

-----------------------------------------------------------------------------
(* C11 *)

\* the two bank windows of the address map
InBank1Window(a) == BANK1_START <= a /\ a <= BANK1_START + BANK_LENGTH - 1
InBank2Window(a) == BANK2_START <= a /\ a <= BANK2_START + BANK_LENGTH - 1

\* the controller that serves address a
ControllerOf(a) == IF InBank2Window(a) THEN FPEC2_BASE ELSE FPEC1_BASE

\* first, last and inner addresses of both windows
WindowSamples ==
    { BANK1_START, BANK1_START + 2048, BANK1_START + FLASH_SECTOR_SIZE - 1,
      BANK1_START + BANK_LENGTH - 1,
      BANK2_START, BANK2_START + 2048, BANK2_START + FLASH_SECTOR_SIZE - 1,
      BANK2_START + BANK_LENGTH - 1 }

\* the registers of the controller at base b that the driver touches
RegistersOf(b) == {b + FLASH_ACR, b + FLASH_KEYR, b + FLASH_CR, b + FLASH_SR, b + FLASH_CCR}

\* the address a sector erase or a program operation was called with
RequestAddr == trace[1].addr

\* the register base stm32h7_flash_unlock selects for the sampled addresses
UnlockSelectsControllerOfWindow ==
    \A a \in WindowSamples : stm32h7_flash_unlock_regbase(a) = ControllerOf(a)

\* C11: stm32h7_flash_unlock(a) selects FPEC2_BASE for every a in bank 2's
\* window and FPEC1_BASE for every a in bank 1's window; each flash bank
\* descriptor holds the register base of the window it starts in; and in
\* a sector erase or program operation on address a every call and every
\* register access, of the unlock and of the operation itself, goes to
\* the controller of a's window and to no other.
C11_UnlockUsesControllerOfBank ==
    /\ UnlockSelectsControllerOfWindow
    /\ \A i \in DOMAIN flash :
          /\ InBank1Window(flash[i].start) \/ InBank2Window(flash[i].start)
          /\ flash[i].regbase = ControllerOf(flash[i].start)
    /\ op \in {"stm32h7_flash_erase", "stm32h7_flash_write"} =>
          \A i \in 2..N :
             /\ trace[i].by \in {"stm32h7_flash_unlock", "stm32h7_flash_busy_wait"}
                /\ trace[i].kind \in {"call", "ret"}
                => trace[i].addr = ControllerOf(RequestAddr)
             /\ trace[i].kind \in {"r", "w"}
                => trace[i].addr \in RegistersOf(ControllerOf(RequestAddr))
    /\ \A j \in 1..Len(stack) :
          stack[j].fn \in {"stm32h7_flash_erase", "stm32h7_flash_write"} =>
             \A k \in 1..(j-1) : stack[k].regbase = ControllerOf(RequestAddr)

\* an erase called with an address inside bank 2's window whose unlock
\* wrote both keys to FPEC2_BASE and returned success
C11_Witness ==
    /\ op = "stm32h7_flash_erase"
    /\ InBank2Window(RequestAddr) /\ RequestAddr # BANK2_START
    /\ \E i \in 1..N : trace[i] = WrEv("stm32h7_flash_unlock", FPEC2_BASE + FLASH_KEYR, KEY2)
    /\ \E i \in 1..N : IsRet(trace[i], "stm32h7_flash_unlock", FPEC2_BASE, TRUE)
    /\ \E i \in 1..N : IsWr(trace[i], FPEC2_BASE + FLASH_ACR)

-----------------------------------------------------------------------------
(* C12 *)

\* the length a sector erase was called with
RequestLen == trace[1].val

\* the request relative to the start of its bank window
AddrRel == RequestAddr - (IF InBank2Window(RequestAddr) THEN BANK2_START ELSE BANK1_START)
FirstSector == AddrRel \div FLASH_SECTOR_SIZE
LastSector  == (AddrRel + RequestLen - 1) \div FLASH_SECTOR_SIZE

\* the arming word of sector s: parallelism, sector-erase mode, sector number
ArmWord(b, s) ==
    LET sf == CHOOSE i \in DOMAIN flash : flash[i].regbase = b
    IN  flash[sf].psize * 16 + 4 + s * 256

\* index of the return of the operation's unlock
RECURSIVE FirstRetOf(_, _)
FirstRetOf(fn, i) ==
    IF i > N THEN 0
    ELSE IF trace[i].kind = "ret" /\ trace[i].by = fn THEN i
    ELSE FirstRetOf(fn, i + 1)

\* what the erase did after its unlock succeeded and FLASH_ACR was written
EraseBody == SubSeq(trace, FirstRetOf("stm32h7_flash_unlock", 1) + 2, N)

\* position of the first acknowledge write in a sequence of entries, or 0
RECURSIVE FirstClear(_, _)
FirstClear(seq, j) ==
    IF j > Len(seq) THEN 0
    ELSE IF seq[j].kind = "w" /\ seq[j].by = "stm32h7_flash_busy_wait" THEN j
    ELSE FirstClear(seq, j + 1)

\* C12: after a successful unlock stm32h7_flash_erase writes FLASH_ACR and
\* then handles the sectors FirstSector, FirstSector + 1, ... in ascending
\* order, none beyond LastSector, each as: the arming word, the same word
\* with the start bit, a busy-wait.  It returns success after the
\* busy-wait of LastSector and not before; the first failing busy-wait is
\* followed by the failure return and by no further write.
C12_EraseSectorsInOrder ==
    ( /\ op = "stm32h7_flash_erase"
      /\ FirstRetOf("stm32h7_flash_unlock", 1) # 0
      /\ trace[FirstRetOf("stm32h7_flash_unlock", 1)].res )
    => LET b    == ControllerOf(RequestAddr)
           u    == FirstRetOf("stm32h7_flash_unlock", 1)
           body == EraseBody
           f    == FirstClear(body, 1)
           fn   == "stm32h7_flash_erase"
           bw   == "stm32h7_flash_busy_wait"
       IN  /\ N > u => trace[u + 1] = WrEv(fn, b + FLASH_ACR, 0)
           /\ \A j \in 1..(IF f = 0 THEN Len(body) ELSE f - 1) :
                 LET s == FirstSector + ((j - 1) \div 4)
                     r == (j - 1) % 4
                 IN  IF s > LastSector
                     THEN /\ r = 0 /\ j = Len(body)
                          /\ body[j] = RetEv(fn, RequestAddr, TRUE)
                     ELSE /\ r = 0 => body[j] = WrEv(fn, b + FLASH_CR, ArmWord(b, s))
                          /\ r = 1 => body[j] = WrEv(fn, b + FLASH_CR,
                                                     ArmWord(b, s) + FLASH_CR_START)
                          /\ r = 2 => body[j] = CallEv(bw, b)
                          /\ r = 3 => body[j] = RetEv(bw, b, TRUE)
           /\ f # 0 =>
                 /\ (f - 1) % 4 = 3
                 /\ Len(body) <= f + 2
                 /\ Len(body) >= f + 1 => body[f + 1] = RetEv(bw, b, FALSE)
                 /\ Len(body) >= f + 2 => body[f + 2] = RetEv(fn, RequestAddr, FALSE)
           /\ Idle => /\ Len(body) >= 1
                       /\ body[Len(body)] = RetEv(fn, RequestAddr, f = 0)

\* a request over three sectors that failed in the busy-wait of its second
\* sector: two sectors were commanded, the third was not
C12_Witness ==
    /\ Finished("stm32h7_flash_erase") /\ ~ret
    /\ LastSector = FirstSector + 2
    /\ FirstRetOf("stm32h7_flash_unlock", 1) # 0
    /\ FirstClear(EraseBody, 1) = 8

-----------------------------------------------------------------------------
(* C13 *)

\* a word with the program-enable bit written to FLASH_CR of bank b
IsProgramEnable(e, b) == IsWr(e, b + FLASH_CR) /\ And(e.val, FLASH_CR_PG) # 0

\* C13: when stm32h7_flash_write has returned, success or failure, every
\* write that set the program-enable bit in a bank's FLASH_CR is followed
\* by a write of 0 to that FLASH_CR.
C13_WriteWindowClosedOnReturn ==
    Finished("stm32h7_flash_write") =>
       \A b \in Bases, i \in 1..N :
          IsProgramEnable(trace[i], b) =>
             \E j \in (i+1)..N : trace[j] = WrEv("stm32h7_flash_write", b + FLASH_CR, 0)

-----------------------------------------------------------------------------
(* C14 *)

\* entry i of the history is a read of the digest register of controller b
\* made after stm32h7_crc_bank has returned 0 for b
DigestReadAfterSequence(i, b) ==
    /\ IsRd(trace[i], b + FLASH_CRCDATA)
    /\ \E k \in 1..(i-1) : IsRet(trace[k], "stm32h7_crc_bank", b, TRUE)

\* C14: the digest the crc command reports for bank 1 was read from
\* FPEC1_BASE + FLASH_CRCDATA after the CRC sequence of bank 1, and the
\* digest it reports for bank 2 from FPEC2_BASE + FLASH_CRCDATA after the
\* CRC sequence of bank 2.
C14_DigestsReadFromOwnController ==
    \A o \in 1..N :
       ( op = "stm32h7_crc" /\ trace[o].kind = "out" ) =>
          /\ \E i \in 1..(o-1) :
                DigestReadAfterSequence(i, FPEC1_BASE) /\ trace[i].val = trace[o].addr
          /\ \E j \in 1..(o-1) :
                DigestReadAfterSequence(j, FPEC2_BASE) /\ trace[j].val = trace[o].val

-----------------------------------------------------------------------------
(* C15 *)

ReadErrorBits(sr) == And(sr, FLASH_SR_ERROR_READ)

\* C15: stm32h7_crc_bank does not return success on a status read that
\* shows a read-error indicator, also when that read is the one that shows
\* CRC_BUSY clear; and a crc command whose last status read showed a
\* read-error indicator returns failure without reporting a digest.
C15_EveryCrcPollChecked ==
    /\ \A b \in Bases :
          JustReturned("stm32h7_crc_bank", b, TRUE) =>
             ReadBy("stm32h7_crc_bank", b) /\ ReadErrorBits(sr_read.val) = 0
    /\ ( /\ Finished("stm32h7_crc")
         /\ sr_read.by = "stm32h7_crc_bank"
         /\ ReadErrorBits(sr_read.val) # 0 )
       => ~ret /\ \A o \in 1..N : trace[o].kind # "out"

-----------------------------------------------------------------------------
(* C16 *)

\* the step in which stm32h7_detach writes DBGMCU_CR
DetachWrites == At("stm32h7_detach", "write") /\ stack' # stack

\* the value that step writes
DetachValue == trace'[N + 1].val

\* C16 as claimed: the value stm32h7_detach writes to DBGMCU_CR is the
\* value the register held at attach.  (Nothing writes the register between
\* attach and detach, so that is the value it holds when detach writes.)
C16_DetachWritesValueSeenAtAttach ==
    [][ DetachWrites => DetachValue = dbgmcu_cr ]_vars

\* C16, amended: the capture is made by stm32h7_probe, not at attach.
\* stm32h7_probe stores in the private state the value it reads from
\* DBGMCU_CR, which without a transport fault is the value the register
\* holds before the probe writes DBGSLEEP_D1 | D1DBGCKEN to it; only a
\* probe changes the private state; the register is not written between
\* attach and detach; and stm32h7_detach writes to DBGMCU_CR the value in
\* the private state, whatever the register holds by then.
C16_DetachWritesValueReadAtProbe ==
    [][ /\ ( At("stm32h7_probe", "read") /\ stack' # stack ) =>
             /\ trace'[N + 1] = RdEv("stm32h7_probe", DBGMCU_CR, target_storage'.dbg_cr)
             /\ target_storage'.alloc
             /\ ~commErr => target_storage'.dbg_cr = dbgmcu_cr
             /\ dbgmcu_cr' = dbgmcu_cr
        /\ target_storage' # target_storage => op' = "stm32h7_probe"
        /\ ( attached /\ dbgmcu_cr' # dbgmcu_cr ) => DetachWrites
        /\ DetachWrites =>
             /\ trace'[N + 1] = WrEv("stm32h7_detach", DBGMCU_CR, target_storage.dbg_cr)
             /\ Delivered => dbgmcu_cr' = target_storage.dbg_cr
      ]_vars

\* a detach has put D3DBGCKEN, the value found at the scan, back into a
\* register that held the driver's DBGSLEEP_D1 | D1DBGCKEN
C16_Witness ==
    /\ Finished("stm32h7_detach")
    /\ trace[2] = WrEv("stm32h7_detach", DBGMCU_CR, D3DBGCKEN)
    /\ dbgmcu_cr = D3DBGCKEN
    /\ target_storage = Storage(D3DBGCKEN)

-----------------------------------------------------------------------------
(* C17 *)

\* the parallelism an argument of the psize command names
PsizeOf(arg) ==
    CASE arg = "x8"  -> 0
      [] arg = "x16" -> 1
      [] arg = "x32" -> 2
      [] arg = "x64" -> 3

ValidPsizeArgs == {"x8", "x16", "x32", "x64"}

\* the parallelism field of a FLASH_CR word, bits 4 and 5
PsizeField(word) == And(word, 3 * 16)

\* every flash bank descriptor holds parallelism v
AllBanksHold(v) ==
    /\ flash # <<>>
    /\ \A i \in DOMAIN flash : flash[i].psize = v

\* the psize command has just run with argc arguments
PsizeDone(argc) == Finished("stm32h7_cmd_psize") /\ trace[1].addr = argc

-----------------------------------------------------------------------------
(* C18 *)

\* the psize command runs, in this step, with an argument that is none of
\* x8, x16, x32, x64
PsizeRunsWithBadArgument ==
    /\ Idle
    /\ vars' # vars
    /\ op' = "stm32h7_cmd_psize"
    /\ trace'[1].addr = 2
    /\ trace'[1].val \notin ValidPsizeArgs

\* C18: the psize command with an argument other than x8, x16, x32, x64
\* returns failure, leaves every descriptor as it was, and makes no
\* register access: its history holds no write, and the controllers and
\* DBGMCU_CR are as before.
C18_BadPsizeArgumentChangesNothing ==
    [][ PsizeRunsWithBadArgument =>
          /\ ~ret'
          /\ flash' = flash
          /\ \A i \in 1..Len(trace') : trace'[i].kind \in {"call", "out", "ret"}
          /\ UNCHANGED <<hw_lock, hw_key, dbgmcu_cr, target_storage, attached, stack>>
      ]_vars

\* psize x128 has failed on a target whose descriptors hold x16
C18_Witness ==
    /\ PsizeDone(2)
    /\ trace[1].val = "x128"
    /\ ~ret
    /\ AllBanksHold(1)

-----------------------------------------------------------------------------
(* C19 *)

\* the parallelism of the descriptor of the bank at register base b
PsizeOfBank(b) ==
    LET sf == CHOOSE i \in DOMAIN flash : flash[i].regbase = b
    IN  flash[sf].psize

\* entries of the history written by stm32h7_flash_write itself
IsOwnAccess(e) ==
    e.by = "stm32h7_flash_write" /\ e.kind \in {"r", "w", "wblock"}

\* C19: stm32h7_flash_write makes no access of its own before its unlock
\* has returned.  After a failed unlock it returns failure at once: no
\* write to FLASH_CR and no data write.  After a successful unlock its
\* next entries are, in this order: the parallelism alone to FLASH_CR, the
\* parallelism with the program-enable bit to FLASH_CR, one block write
\* of the whole request to the destination, the busy-wait; and the
\* history holds no second block write.
C19_WriteAccessOrder ==
    ( op = "stm32h7_flash_write" /\ FirstRetOf("stm32h7_flash_unlock", 1) # 0 )
    => LET u  == FirstRetOf("stm32h7_flash_unlock", 1)
           b  == ControllerOf(RequestAddr)
           fn == "stm32h7_flash_write"
           v  == PsizeOfBank(b) * 16
       IN  /\ \A i \in 1..u : ~IsOwnAccess(trace[i])
           /\ IF ~trace[u].res
              THEN /\ N <= u + 1
                   /\ N = u + 1 => trace[N] = RetEv(fn, RequestAddr, FALSE)
              ELSE /\ N >= u + 1 => trace[u + 1] = WrEv(fn, b + FLASH_CR, v)
                   /\ N >= u + 2 => trace[u + 2] = WrEv(fn, b + FLASH_CR, v + FLASH_CR_PG)
                   /\ N >= u + 3 => trace[u + 3] = BlkEv(fn, RequestAddr, RequestLen)
                   /\ N >= u + 4 => trace[u + 4] = CallEv("stm32h7_flash_busy_wait", b)
                   /\ \A i \in (u + 4)..N : trace[i].kind # "wblock"
                   /\ Idle => N >= u + 5

\* a program operation on the second block of bank 2 that wrote its block
\* and returned success
C19_Witness ==
    /\ Finished("stm32h7_flash_write") /\ ret
    /\ RequestAddr = BANK2_START + 2048
    /\ \E i \in 1..N : trace[i] = BlkEv("stm32h7_flash_write", BANK2_START + 2048, 2048)

-----------------------------------------------------------------------------
(* C20 *)

\* the sector-number field of FLASH_CR, bits 8 to 10
SNB_FIELD == 7 * 256

SectorIn(word) == And(word, SNB_FIELD) \div 256

\* lengths of erase requests: a byte, two bytes, a sector, a whole bank
LenSamples == {1, 2, FLASH_SECTOR_SIZE, BANK_LENGTH}

WindowStart(a) == IF InBank2Window(a) THEN BANK2_START ELSE BANK1_START

\* index of the first entry of the history that is a write by fn, or 0
RECURSIVE FirstWriteBy(_, _)
FirstWriteBy(fn, i) ==
    IF i > N THEN 0
    ELSE IF trace[i].kind = "w" /\ trace[i].by = fn /\
            trace[i].addr = ControllerOf(RequestAddr) + FLASH_CR THEN i
    ELSE FirstWriteBy(fn, i + 1)

\* the sector range of every sampled request inside one bank
SectorRangeStaysInBank ==
    \A a \in WindowSamples, len \in LenSamples :
       a + len <= WindowStart(a) + BANK_LENGTH =>
          /\ stm32h7_flash_erase_start_sector(a) = (a - WindowStart(a)) \div FLASH_SECTOR_SIZE
          /\ stm32h7_flash_erase_start_sector(a) <= stm32h7_flash_erase_end_sector(a, len)
          /\ stm32h7_flash_erase_end_sector(a, len) <= NUM_SECTOR_PER_BANK - 1

\* the arming word of every sector of a bank, for every parallelism
SectorWordKeepsField ==
    \A psize \in 0..3, sector \in 0..(NUM_SECTOR_PER_BANK - 1) :
       LET word == stm32h7_flash_erase_ctrl_reg(psize, sector)
       IN  /\ SectorIn(word) = sector
           /\ word - And(word, SNB_FIELD) = psize * 16 + FLASH_CR_SER

\* C20: for requests inside one bank, from the first to the last address
\* of either window and up to a whole bank long, the sector range that
\* stm32h7_flash_erase computes starts at the bank-relative index of addr
\* and ends at or below sector 7, and its word for a sector 0..7 holds the
\* sector number in bits 8-10 and nothing of it elsewhere.  Every word
\* stm32h7_flash_erase writes to FLASH_CR is, outside bits 8-10, the
\* parallelism with the sector-erase bit, with or without the start bit:
\* lock, program, bank-erase and crc-enable bits are clear; and the first
\* word written names the bank-relative sector of addr.
C20_SectorNumberStaysInField ==
    /\ SectorRangeStaysInBank
    /\ SectorWordKeepsField
    /\ op = "stm32h7_flash_erase" =>
          LET b == ControllerOf(RequestAddr)
              f == FirstWriteBy("stm32h7_flash_erase", 1)
          IN  /\ \A i \in 1..N :
                    ( trace[i].by = "stm32h7_flash_erase" /\ IsWr(trace[i], b + FLASH_CR) ) =>
                       /\ trace[i].val - And(trace[i].val, SNB_FIELD)
                             \in { PsizeOfBank(b) * 16 + FLASH_CR_SER,
                                   PsizeOfBank(b) * 16 + FLASH_CR_SER + FLASH_CR_START }
                       /\ SectorIn(trace[i].val) >= FirstSector
                       /\ SectorIn(trace[i].val) <= LastSector
              /\ f # 0 => SectorIn(trace[f].val) = FirstSector

\* an erase of the last sector of bank 2: the word with the start bit
\* names sector 7, not sector 7 plus the sector index of the bank base
C20_Witness ==
    /\ op = "stm32h7_flash_erase"
    /\ RequestAddr = BANK2_START + 7 * FLASH_SECTOR_SIZE
    /\ \E i \in 1..N :
          trace[i] = WrEv("stm32h7_flash_erase", FPEC2_BASE + FLASH_CR,
                          3 * 16 + FLASH_CR_SER + 7 * 256 + FLASH_CR_START)

====
